---- MODULE Spec2Model ----
(***************************************************************************)
(* Docker monitor (jvidal16/rrr): the plain-ANSI variant src/monitor.py    *)
(* and the rich-layout variant src/monitorfree.py.                         *)
(*                                                                         *)
(* Text that the code parses or truncates (sizes, percentages, names) is   *)
(* a sequence of one-character strings, so that strip / replace / float    *)
(* are computed character by character.  Text that the code only compares  *)
(* or copies (the container State) is a TLA+ string.                       *)
(* Python floats are modelled by exact rationals [n, d], d > 0.            *)
(***************************************************************************)
EXTENDS Integers, Sequences, FiniteSets, TLC

VARIABLES
    variant,      \* which script runs: "monitor" or "monitorfree"
    pc,           \* position of the control flow of main()
    images,       \* main/generate_display local: result of get_docker_images()
    containers,   \* result of get_docker_containers()
    stats,        \* result of get_container_stats()
    failed,       \* which queries of the current cycle took the except branch
    hung,         \* the outstanding docker subprocess will never return
    layout,       \* monitorfree: the Layout being built by generate_display()
    screen,       \* what the terminal shows
    live,         \* monitorfree: inside the `with Live(...)` block
    output,       \* messages printed outside the frame (error, farewell)
    exc,          \* exception that left main(), "" if none
    exitStatus,   \* process exit status, NotExited while running
    cycle,        \* number of the current poll/render cycle (saturating)
    sigints,      \* number of user interrupts delivered so far
    arg,          \* input of the pure function under check
    ret           \* its result

vars == <<variant, pc, images, containers, stats, failed, hung, layout, screen,
          live, output, exc, exitStatus, cycle, sigints, arg, ret>>

----------------------------------------------------------------------------
(* Bounds *)

MaxLines      == 1      \* output lines of one docker query
MaxCycles     == 2      \* the cycle counter saturates here
MaxInterrupts == 1      \* user interrupts delivered in one run
MaxPct        == 20000  \* largest bar percentage drawn, in hundredths of 1%
MaxContainers == 11     \* container records given to the summary

----------------------------------------------------------------------------
(* Exact rationals [n, d], d > 0, standing for Python floats *)

Rat(n, d) == [n |-> n, d |-> d]

RatOfInt(i) == [n |-> i, d |-> 1]

RatMul(x, y) == [n |-> x.n * y.n, d |-> x.d * y.d]

\* x / y, y not zero
RatDiv(x, y) ==
    IF y.n > 0 THEN [n |-> x.n * y.d, d |-> x.d * y.n]
    ELSE [n |-> -(x.n * y.d), d |-> x.d * (-y.n)]

RatLess(x, y) == x.n * y.d < y.n * x.d

\* Python int(x): truncation toward zero
IntOf(x) == IF x.n >= 0 THEN x.n \div x.d ELSE -((-x.n) \div x.d)

RatMax(x, y) == IF RatLess(x, y) THEN y ELSE x

----------------------------------------------------------------------------
(* Python str operations on character sequences *)

\* A Python assignment `v = e` followed by code F that reads v: e is
\* evaluated once and F is applied to its value
Apply(F(_), e) == CHOOSE r \in {F(v) : v \in {e}} : TRUE

Take(s, k) == SubSeq(s, 1, IF Len(s) < k THEN Len(s) ELSE k)

Drop(s, k) == SubSeq(s, k + 1, Len(s))

\* sub occurs in s at position i
At(s, sub, i) == i + Len(sub) - 1 <= Len(s) /\ SubSeq(s, i, i + Len(sub) - 1) = sub

\* `sub in s`
Contains(s, sub) == \E i \in 1..Len(s) : At(s, sub, i)

\* s.replace(sub, '') for a sub of two different characters, whose
\* occurrences cannot overlap
Remove(s, sub) ==
    LET gone == {i \in 1..Len(s) : At(s, sub, i) \/ (i > 1 /\ At(s, sub, i - 1))}
        F[i \in 0..Len(s)] ==
            IF i = 0 THEN <<>>
            ELSE IF i \in gone THEN F[i - 1] ELSE Append(F[i - 1], s[i])
    IN F[Len(s)]

\* s.rstrip(c)
RStrip(s, c) ==
    LET keep == {i \in 1..Len(s) : s[i] /= c}
    IN IF keep = {} THEN <<>>
       ELSE SubSeq(s, 1, CHOOSE i \in keep : \A j \in keep : j <= i)

\* s.lstrip(c)
LStrip(s, c) ==
    LET keep == {i \in 1..Len(s) : s[i] /= c}
    IN IF keep = {} THEN <<>>
       ELSE SubSeq(s, CHOOSE i \in keep : \A j \in keep : i <= j, Len(s))

\* s.strip(), for text whose only whitespace is the blank
Strip(s) == Apply(LAMBDA t : LStrip(t, " "), RStrip(s, " "))

DigitChars == <<"0", "1", "2", "3", "4", "5", "6", "7", "8", "9">>

IsDigit(c) == \E i \in 1..10 : DigitChars[i] = c

DigitVal(c) == (CHOOSE i \in 1..10 : DigitChars[i] = c) - 1

\* the number written by a sequence of digits
DigitsVal(s) ==
    LET F[i \in 0..Len(s)] == IF i = 0 THEN 0 ELSE 10 * F[i - 1] + DigitVal(s[i])
    IN F[Len(s)]

Pow10(k) ==
    LET F[i \in 0..k] == IF i = 0 THEN 1 ELSE 10 * F[i - 1]
    IN F[k]

AllDigits(s) == \A i \in 1..Len(s) : IsDigit(s[i])

ValueError == [exc |-> "ValueError"]

KeyError == [exc |-> "KeyError"]

Raised(x) == "exc" \in DOMAIN x

\* float(t) for stripped text made of digits, '.', and a sign (no exponent,
\* inf/nan or underscores): [sign] digits ['.' digits*] | [sign] '.' digits
FloatOfStripped(t) ==
    LET signed == t /= <<>> /\ t[1] \in {"-", "+"}
        first  == IF signed THEN 2 ELSE 1
        dots   == {i \in first..Len(t) : t[i] = "."}
        dot    == IF dots = {} THEN Len(t) + 1 ELSE CHOOSE i \in dots : TRUE
        good   == /\ Cardinality(dots) <= 1
                  /\ \A i \in first..Len(t) : i = dot \/ IsDigit(t[i])
                  /\ \E i \in first..Len(t) : i /= dot
        digits == SubSeq(t, first, dot - 1) \o SubSeq(t, dot + 1, Len(t))
        sign   == IF t[1] = "-" THEN -1 ELSE 1
    IN IF ~good THEN ValueError
       ELSE [n |-> sign * DigitsVal(digits),
             d |-> Pow10(IF dot > Len(t) THEN 0 ELSE Len(t) - dot)]

\* float(s): surrounding whitespace is ignored
float(s) == Apply(FloatOfStripped, Strip(s))

----------------------------------------------------------------------------
(* Size normalisation and bars *)

\* The unit parse_size finds in s: GB before MB before KB, <<>> if none
UnitOf(s) ==
    IF Contains(s, <<"G", "B">>) THEN <<"G", "B">>
    ELSE IF Contains(s, <<"M", "B">>) THEN <<"M", "B">>
    ELSE IF Contains(s, <<"K", "B">>) THEN <<"K", "B">>
    ELSE <<>>

\* float(size_str.replace(unit, '')) scaled to megabytes
ScaledSize(s, unit) ==
    Apply(LAMBDA f : IF Raised(f) THEN f
                     ELSE IF unit = <<"G", "B">> THEN RatMul(f, RatOfInt(1024))
                     ELSE IF unit = <<"M", "B">> THEN f
                     ELSE RatDiv(f, RatOfInt(1024)),
          float(Apply(LAMBDA t : Remove(s, t), unit)))

\* parse_size after `size_str = size_str.strip()`
ParseStrippedSize(s) ==
    Apply(LAMBDA unit : IF unit = <<>> THEN RatOfInt(0) ELSE ScaledSize(s, unit),
          UnitOf(s))

\* parse_size(size_str): megabytes, or ValueError out of float()
parse_size(size_str) == Apply(ParseStrippedSize, Strip(size_str))

\* 'x' * k: the number of glyphs of a repeated one-character string
Repeat(k) == IF k < 0 THEN 0 ELSE k

\* create_colored_bar with the 50 boundary taken as green
create_colored_bar_le(percentage, width) ==
    LET filled == IntOf(RatMul(RatDiv(percentage, RatOfInt(100)), RatOfInt(width)))
        empty  == width - filled
        color  == IF ~RatLess(RatOfInt(50), percentage) THEN "green"
                  ELSE IF RatLess(percentage, RatOfInt(75)) THEN "yellow"
                  ELSE "red"
    IN [color |-> color, filled |-> Repeat(filled), empty |-> Repeat(empty)]

\* create_colored_bar(percentage, width) of monitor.py: `filled` full cells
\* in one colour, then `empty` light cells.  The "{percentage:5.1f}%" label
\* that follows the bar is not modelled.
create_colored_bar(percentage, width) ==
    LET filled == IntOf(RatMul(RatDiv(percentage, RatOfInt(100)), RatOfInt(width)))
        empty  == width - filled
        color  == IF RatLess(percentage, RatOfInt(50)) THEN "green"
                  ELSE IF RatLess(percentage, RatOfInt(75)) THEN "yellow"
                  ELSE "red"
    IN [color |-> color, filled |-> Repeat(filled), empty |-> Repeat(empty)]

\* create_bar(percentage, width) of monitorfree.py
create_bar(percentage, width) ==
    LET filled == IntOf(RatMul(RatDiv(percentage, RatOfInt(100)), RatOfInt(width)))
        color  == IF RatLess(percentage, RatOfInt(50)) THEN "green"
                  ELSE IF RatLess(percentage, RatOfInt(75)) THEN "yellow"
                  ELSE "red"
    IN [color |-> color, filled |-> Repeat(filled), empty |-> Repeat(width - filled)]

----------------------------------------------------------------------------
(* Runtime data source *)

BlankLine == [kind |-> "blank"]

BadLine == [kind |-> "bad"]

JsonLine(o) == [kind |-> "json", obj |-> o]

\* The body shared by get_docker_images, get_docker_containers and
\* get_container_stats: r is the finished subprocess, [returncode, lines].
\* check=True raises on a non-zero exit and json.loads raises on a bad line;
\* the bare except turns either into [].
RunQuery(r) ==
    IF r.returncode /= 0 THEN <<>>
    ELSE IF \E i \in 1..Len(r.lines) : r.lines[i].kind = "bad" THEN <<>>
    ELSE LET F[i \in 0..Len(r.lines)] ==
                 IF i = 0 THEN <<>>
                 ELSE IF r.lines[i].kind = "blank" THEN F[i - 1]
                 ELSE Append(F[i - 1], r.lines[i].obj)
         IN F[Len(r.lines)]

get_docker_images(r) == RunQuery(r)

get_docker_containers(r) == RunQuery(r)

get_container_stats(r) == RunQuery(r)

\* The except branch was taken
QueryFailed(r) ==
    r.returncode /= 0 \/ \E i \in 1..Len(r.lines) : r.lines[i].kind = "bad"

----------------------------------------------------------------------------
(* Frame sections.  A section is [drawn |-> FALSE] until it is drawn.      *)

NotDrawn == [drawn |-> FALSE]

EmptyFrame ==
    [header |-> FALSE, summary |-> NotDrawn, images |-> NotDrawn,
     containers |-> NotDrawn, stats |-> NotDrawn, footer |-> FALSE]

Panel(rows) == [drawn |-> TRUE, rows |-> rows]

Placeholder(text) == [placeholder |-> TRUE, text |-> text]

Has(o, fields) == fields \subseteq DOMAIN o

Min(S) == CHOOSE x \in S : \A y \in S : x <= y

\* The exception of the first element of a sequence of "" / exception names
FirstError(errs) ==
    LET bad == {i \in 1..Len(errs) : errs[i] /= ""}
    IN IF bad = {} THEN "" ELSE errs[Min(bad)]

\* running / stopped counts of both summaries; c['State'] raises KeyError
Running(conts) == Cardinality({i \in 1..Len(conts) : conts[i].State = "running"})

\* display_summary counting the rows shown instead of the records fetched
display_summary_shown(imgs, conts) ==
    IF \E i \in 1..Len(conts) : ~Has(conts[i], {"State"}) THEN KeyError
    ELSE LET running == Running(Take(conts, 10))
             stopped == Len(Take(conts, 10)) - running
         IN [drawn |-> TRUE, images |-> Len(imgs), containers |-> Len(Take(conts, 10)),
             running |-> running, stopped |-> stopped]

\* display_summary(images, containers) of monitor.py
display_summary(imgs, conts) ==
    IF \E i \in 1..Len(conts) : ~Has(conts[i], {"State"}) THEN KeyError
    ELSE LET running == Running(conts)
             stopped == Len(conts) - running
         IN [drawn |-> TRUE, images |-> Len(imgs), containers |-> Len(conts),
             running |-> running, stopped |-> stopped]

\* The summary table of generate_display() of monitorfree.py
generate_display_summary(imgs, conts) ==
    IF \E i \in 1..Len(conts) : ~Has(conts[i], {"State"}) THEN KeyError
    ELSE LET running == Running(conts)
             stopped == Len(conts) - running
         IN [drawn |-> TRUE, images |-> Len(imgs), containers |-> Len(conts),
             running |-> running, stopped |-> stopped]

\* max(parse_size(img['Size']) for img in images), images non-empty and
\* every size parsed
MaxSize(imgs) ==
    LET F[i \in 1..Len(imgs)] ==
            IF i = 1 THEN parse_size(imgs[1].Size)
            ELSE RatMax(F[i - 1], parse_size(imgs[i].Size))
    IN F[Len(imgs)]

\* What the max(...) generator raises, "" if nothing
MaxSizeError(imgs) ==
    FirstError([i \in 1..Len(imgs) |->
        IF ~Has(imgs[i], {"Size"}) THEN "KeyError"
        ELSE IF Raised(parse_size(imgs[i].Size)) THEN "ValueError"
        ELSE ""])

\* percentage = (size_mb / max_size * 100) if max_size > 0 else 0
ImagePercentage(img, max_size) ==
    Apply(LAMBDA size_mb : IF RatLess(RatOfInt(0), max_size)
                           THEN RatMul(RatDiv(size_mb, max_size), RatOfInt(100))
                           ELSE RatOfInt(0),
          parse_size(img.Size))

\* What the image rows raise, "" if nothing: first the max(...) over all
\* fetched images, then the fields of each shown image
ImagesError(imgs, topN) ==
    IF MaxSizeError(imgs) /= "" THEN MaxSizeError(imgs)
    ELSE FirstError([i \in 1..Len(Take(imgs, topN)) |->
             IF Has(imgs[i], {"Repository", "Tag"}) THEN "" ELSE "KeyError"])

\* display_images(images) of monitor.py: the first 8 images, bars scaled to
\* the largest size of all fetched images
display_images(imgs) ==
    IF imgs /= <<>>
    THEN IF ImagesError(imgs, 8) /= "" THEN [exc |-> ImagesError(imgs, 8)]
         ELSE Apply(LAMBDA max_size :
                  Panel([i \in 1..Len(Take(imgs, 8)) |->
                      [repo |-> Take(imgs[i].Repository, 28),
                       tag  |-> Take(imgs[i].Tag, 13),
                       size |-> imgs[i].Size,
                       bar  |-> Apply(LAMBDA percentage : create_colored_bar(percentage, 15),
                                      ImagePercentage(imgs[i], max_size))]]),
                  MaxSize(imgs))
    ELSE Panel(<<Placeholder("No images found")>>)

\* The images table of generate_display() of monitorfree.py: the first 5
generate_display_images(imgs) ==
    IF imgs /= <<>>
    THEN IF ImagesError(imgs, 5) /= "" THEN [exc |-> ImagesError(imgs, 5)]
         ELSE Apply(LAMBDA max_size :
                  Panel([i \in 1..Len(Take(imgs, 5)) |->
                      [repo |-> Take(imgs[i].Repository, 30),
                       tag  |-> Take(imgs[i].Tag, 15),
                       size |-> imgs[i].Size,
                       bar  |-> Apply(LAMBDA percentage : create_bar(percentage, 15),
                                      ImagePercentage(imgs[i], max_size))]]),
                  MaxSize(imgs))
    ELSE Panel(<<Placeholder("No images")>>)

ContainerRows(conts, topN, nameCut, imageCut, statusCut) ==
    LET shown == Take(conts, topN)
        err   == FirstError([i \in 1..Len(shown) |->
                     IF Has(shown[i], {"Names", "Image", "Status", "State"})
                     THEN "" ELSE "KeyError"])
        row(c) == [name |-> Take(c.Names, nameCut), image |-> Take(c.Image, imageCut),
                   status |-> Take(c.Status, statusCut), state |-> c.State,
                   state_color |-> IF c.State = "running" THEN "green" ELSE "red"]
    IN IF err /= "" THEN [exc |-> err]
       ELSE Panel([i \in 1..Len(shown) |-> row(shown[i])])

\* display_containers(containers) of monitor.py: title, column heads and
\* one row per shown container, nothing else
display_containers(conts) == ContainerRows(conts, 10, 23, 23, 18)

\* The containers table of generate_display() of monitorfree.py
generate_display_containers(conts) ==
    LET table == ContainerRows(conts, 5, 25, 25, 20)
    IN IF Raised(table) THEN table
       ELSE IF conts = <<>> THEN Panel(Append(table.rows, Placeholder("No containers")))
       ELSE table

\* float(stat[field].rstrip('%'))
PercentOf(stat, field) ==
    IF ~Has(stat, {field}) THEN KeyError ELSE float(RStrip(stat[field], "%"))

StatError(stat, fields) ==
    FirstError([i \in 1..Len(fields) |->
        IF fields[i] = "Name"
        THEN (IF Has(stat, {"Name"}) THEN "" ELSE "KeyError")
        ELSE (IF Raised(PercentOf(stat, fields[i]))
              THEN PercentOf(stat, fields[i]).exc ELSE "")])

\* What the stat rows raise, "" if nothing; `order` is the order in which
\* the code reads the fields of one record
StatsError(sts, topN, order) ==
    FirstError([i \in 1..Len(Take(sts, topN)) |-> StatError(sts[i], order)])

\* display_stats(stats) of monitor.py: the first 8 records
display_stats(sts) ==
    IF sts = <<>> THEN Panel(<<Placeholder("No running containers")>>)
    ELSE IF StatsError(sts, 8, <<"Name", "CPUPerc", "MemPerc">>) /= ""
    THEN [exc |-> StatsError(sts, 8, <<"Name", "CPUPerc", "MemPerc">>)]
    ELSE Panel([i \in 1..Len(Take(sts, 8)) |->
             [name    |-> Take(sts[i].Name, 23),
              cpu_bar |-> create_colored_bar(PercentOf(sts[i], "CPUPerc"), 15),
              mem_bar |-> create_colored_bar(PercentOf(sts[i], "MemPerc"), 15)]])

\* The resource usage panel of generate_display() of monitorfree.py: the
\* first 5 records
generate_display_stats(sts) ==
    IF sts /= <<>>
    THEN IF StatsError(sts, 5, <<"CPUPerc", "MemPerc", "Name">>) /= ""
         THEN [exc |-> StatsError(sts, 5, <<"CPUPerc", "MemPerc", "Name">>)]
         ELSE Panel([i \in 1..Len(Take(sts, 5)) |->
                  [name    |-> Take(sts[i].Name, 25),
                   cpu_bar |-> create_bar(PercentOf(sts[i], "CPUPerc"), 10),
                   mem_bar |-> create_bar(PercentOf(sts[i], "MemPerc"), 10)]])
    ELSE Panel(<<Placeholder("No running containers")>>)

----------------------------------------------------------------------------
(* The records docker may print, one JSON object per line *)

ImgNginx == [Repository |-> <<"n", "g", "i", "n", "x">>, Tag |-> <<"1", ".", "2", "5">>, Size |-> <<"2", "G", "B">>]

ImgAlpine == [Repository |-> <<"a", "l", "p", "i", "n", "e">>, Tag |-> <<"l", "a", "t", "e", "s", "t">>, Size |-> <<"5", "1", "2", "M", "B">>]

\* a size whose numeric part is not a number
ImgBadSize == [Repository |-> <<"s", "c", "r", "a", "t", "c", "h">>, Tag |-> <<"d", "e", "v">>, Size |-> <<"?", "M", "B">>]

ImageSamples == {ImgNginx, ImgAlpine, ImgBadSize}

CtOf(state) == [Names |-> <<"w", "e", "b">>, Image |-> <<"n", "g", "i", "n", "x">>, Status |-> <<"U", "p", " ", "3", " ", "m", "i", "n", "u", "t", "e", "s">>, State |-> state]

\* an object without the State field
CtNoState == [Names |-> <<"j", "o", "b">>, Image |-> <<"a", "l", "p", "i", "n", "e">>, Status |-> <<"C", "r", "e", "a", "t", "e", "d">>]

ContainerSamples == {CtOf("running"), CtOf("exited"), CtNoState}

StWeb == [Name |-> <<"w", "e", "b">>, CPUPerc |-> <<"1", "2", ".", "3", "4", "%">>, MemPerc |-> <<"4", "5", ".", "0", "0", "%">>]

\* a container using more than one core
StHot == [Name |-> <<"w", "o", "r", "k", "e", "r">>, CPUPerc |-> <<"2", "5", "0", ".", "0", "0", "%">>, MemPerc |-> <<"8", "0", ".", "0", "0", "%">>]

\* docker prints "--" while it has no sample for a container
StNoSample == [Name |-> <<"d", "b">>, CPUPerc |-> <<"-", "-">>, MemPerc |-> <<"-", "-">>]

StatSamples == {StWeb, StHot, StNoSample}

RECURSIVE SeqsUpTo(_, _)
SeqsUpTo(S, k) ==
    IF k = 0 THEN {<<>>}
    ELSE LET T == SeqsUpTo(S, k - 1)
         IN T \cup {Append(t, x) : t \in {u \in T : Len(u) = k - 1}, x \in S}

\* The finished subprocesses of a query whose objects come from `samples`
Results(samples) ==
    [returncode : {0, 1},
     lines : SeqsUpTo({JsonLine(o) : o \in samples} \cup {BadLine, BlankLine}, MaxLines)]

----------------------------------------------------------------------------
(* main() of both variants *)

NotExited == -1

NoValue == [none |-> TRUE]

ErrorMessage == "Error: Docker is not installed or not running"

Farewell == "Goodbye!"

Querying == {"q_images", "q_containers", "q_stats"}

Rendering == {"display_summary", "display_images", "display_containers", "display_stats",
              "gd_summary", "gd_stats", "gd_images", "gd_containers"}

\* where the control goes once get_container_stats() has returned
AfterStats == IF variant = "monitor" THEN "display_summary" ELSE "gd_summary"

NextCycle == IF cycle < MaxCycles THEN cycle + 1 ELSE cycle

Init ==
    /\ variant \in {"monitor", "monitorfree"}
    /\ pc = "probe"
    /\ images = <<>> /\ containers = <<>> /\ stats = <<>>
    /\ failed = {}
    /\ hung = FALSE
    /\ layout = EmptyFrame
    /\ screen = EmptyFrame
    /\ live = FALSE
    /\ output = <<>>
    /\ exc = ""
    /\ exitStatus = NotExited
    /\ cycle = 0
    /\ sigints = 0
    /\ arg = NoValue
    /\ ret = NoValue

\* `docker version` succeeded.  monitor.py enters `while True`, clears the
\* screen and calls get_docker_images(); monitorfree.py evaluates the first
\* generate_display(), which calls get_docker_images().
ProbeOk ==
    /\ pc = "probe" /\ ~hung
    /\ pc' = "q_images"
    /\ cycle' = 1
    /\ screen' = EmptyFrame
    /\ layout' = EmptyFrame
    /\ UNCHANGED <<variant, images, containers, stats, failed, hung, live, output,
                   exc, exitStatus, sigints, arg, ret>>

\* `docker version` failed (non-zero exit, or docker is not installed):
\* the except branch prints the message and main() returns, so the
\* interpreter ends with status 0.
ProbeFails ==
    /\ pc = "probe" /\ ~hung
    /\ output' = Append(output, ErrorMessage)
    /\ pc' = "exited"
    /\ exitStatus' = 0
    /\ UNCHANGED <<variant, images, containers, stats, failed, hung, layout, screen,
                   live, exc, cycle, sigints, arg, ret>>

\* get_docker_images(): the subprocess finishes
ImagesReturn ==
    /\ pc = "q_images" /\ ~hung
    /\ \E r \in Results(ImageSamples) :
         /\ images' = get_docker_images(r)
         /\ failed' = IF QueryFailed(r) THEN failed \cup {"images"} ELSE failed
    /\ pc' = "q_containers"
    /\ UNCHANGED <<variant, containers, stats, hung, layout, screen, live, output,
                   exc, exitStatus, cycle, sigints, arg, ret>>

\* get_docker_containers(): the subprocess finishes
ContainersReturn ==
    /\ pc = "q_containers" /\ ~hung
    /\ \E r \in Results(ContainerSamples) :
         /\ containers' = get_docker_containers(r)
         /\ failed' = IF QueryFailed(r) THEN failed \cup {"containers"} ELSE failed
    /\ pc' = "q_stats"
    /\ UNCHANGED <<variant, images, stats, hung, layout, screen, live, output,
                   exc, exitStatus, cycle, sigints, arg, ret>>

\* get_container_stats(): the subprocess finishes
StatsReturn ==
    /\ pc = "q_stats" /\ ~hung
    /\ \E r \in Results(StatSamples) :
         /\ stats' = get_container_stats(r)
         /\ failed' = IF QueryFailed(r) THEN failed \cup {"stats"} ELSE failed
    /\ pc' = AfterStats
    /\ UNCHANGED <<variant, images, containers, hung, layout, screen, live, output,
                   exc, exitStatus, cycle, sigints, arg, ret>>

\* The outstanding docker subprocess never finishes.  subprocess.run is
\* called without timeout=, so nothing but an interrupt ends the call.
Hang ==
    /\ pc \in Querying \cup {"probe"}
    /\ ~hung
    /\ hung' = TRUE
    /\ UNCHANGED <<variant, pc, images, containers, stats, failed, layout, screen,
                   live, output, exc, exitStatus, cycle, sigints, arg, ret>>

\* Ctrl+C during `docker version`: subprocess.run re-raises
\* KeyboardInterrupt, the bare except of main() catches it like a failure.
InterruptProbe ==
    /\ pc = "probe"
    /\ sigints < MaxInterrupts
    /\ sigints' = sigints + 1
    /\ hung' = FALSE
    /\ output' = Append(output, ErrorMessage)
    /\ pc' = "exited"
    /\ exitStatus' = 0
    /\ UNCHANGED <<variant, images, containers, stats, failed, layout, screen,
                   live, exc, cycle, arg, ret>>

\* Ctrl+C while a query is outstanding: subprocess.run kills the child and
\* re-raises KeyboardInterrupt, the bare except of the query returns [].
InterruptQuery ==
    /\ pc \in Querying
    /\ sigints < MaxInterrupts
    /\ sigints' = sigints + 1
    /\ hung' = FALSE
    /\ images' = IF pc = "q_images" THEN <<>> ELSE images
    /\ containers' = IF pc = "q_containers" THEN <<>> ELSE containers
    /\ stats' = IF pc = "q_stats" THEN <<>> ELSE stats
    /\ failed' = failed \cup {IF pc = "q_images" THEN "images"
                              ELSE IF pc = "q_containers" THEN "containers"
                              ELSE "stats"}
    /\ pc' = IF pc = "q_images" THEN "q_containers"
             ELSE IF pc = "q_containers" THEN "q_stats"
             ELSE AfterStats
    /\ UNCHANGED <<variant, layout, screen, live, output, exc, exitStatus, cycle,
                   arg, ret>>

\* Ctrl+C while the frame is built or drawn, or during time.sleep:
\* `except KeyboardInterrupt` prints the farewell and main() returns.
\* Leaving the `with Live(...)` block restores the terminal.
InterruptLoop ==
    /\ pc \in Rendering \cup {"sleep"}
    /\ sigints < MaxInterrupts
    /\ sigints' = sigints + 1
    /\ output' = Append(output, Farewell)
    /\ pc' = "exited"
    /\ exitStatus' = 0
    /\ live' = FALSE
    /\ screen' = IF live THEN EmptyFrame ELSE screen
    /\ UNCHANGED <<variant, images, containers, stats, failed, hung, layout, exc,
                   cycle, arg, ret>>

\* An exception other than KeyboardInterrupt leaves main(): traceback, exit
\* status 1 (after Live has restored the terminal, in monitorfree.py)
Crash(e) ==
    /\ exc' = e
    /\ pc' = "exited"
    /\ exitStatus' = 1
    /\ live' = FALSE
    /\ screen' = IF live THEN EmptyFrame ELSE screen
    /\ UNCHANGED layout

\* monitor.py: print_header(); display_summary(images, containers)
DisplaySummary ==
    /\ pc = "display_summary"
    /\ LET r == display_summary(images, containers)
       IN IF Raised(r) THEN Crash(r.exc)
          ELSE /\ screen' = [screen EXCEPT !.header = TRUE, !.summary = r]
               /\ pc' = "display_images"
               /\ UNCHANGED <<layout, live, exc, exitStatus>>
    /\ UNCHANGED <<variant, images, containers, stats, failed, hung, output, cycle,
                   sigints, arg, ret>>

\* monitor.py: display_images(images)
DisplayImages ==
    /\ pc = "display_images"
    /\ LET r == display_images(images)
       IN IF Raised(r) THEN Crash(r.exc)
          ELSE /\ screen' = [screen EXCEPT !.images = r]
               /\ pc' = "display_containers"
               /\ UNCHANGED <<layout, live, exc, exitStatus>>
    /\ UNCHANGED <<variant, images, containers, stats, failed, hung, output, cycle,
                   sigints, arg, ret>>

\* monitor.py: display_containers(containers)
DisplayContainers ==
    /\ pc = "display_containers"
    /\ LET r == display_containers(containers)
       IN IF Raised(r) THEN Crash(r.exc)
          ELSE /\ screen' = [screen EXCEPT !.containers = r]
               /\ pc' = "display_stats"
               /\ UNCHANGED <<layout, live, exc, exitStatus>>
    /\ UNCHANGED <<variant, images, containers, stats, failed, hung, output, cycle,
                   sigints, arg, ret>>

\* monitor.py: display_stats(stats); print the footer; time.sleep(20) begins
DisplayStats ==
    /\ pc = "display_stats"
    /\ LET r == display_stats(stats)
       IN IF Raised(r) THEN Crash(r.exc)
          ELSE /\ screen' = [screen EXCEPT !.stats = r, !.footer = TRUE]
               /\ pc' = "sleep"
               /\ UNCHANGED <<layout, live, exc, exitStatus>>
    /\ UNCHANGED <<variant, images, containers, stats, failed, hung, output, cycle,
                   sigints, arg, ret>>

\* monitorfree.py, generate_display(): header and summary
GdSummary ==
    /\ pc = "gd_summary"
    /\ LET r == generate_display_summary(images, containers)
       IN IF Raised(r) THEN Crash(r.exc)
          ELSE /\ layout' = [layout EXCEPT !.header = TRUE, !.summary = r]
               /\ pc' = "gd_stats"
               /\ UNCHANGED <<screen, live, exc, exitStatus>>
    /\ UNCHANGED <<variant, images, containers, stats, failed, hung, output, cycle,
                   sigints, arg, ret>>

\* monitorfree.py, generate_display(): resource usage
GdStats ==
    /\ pc = "gd_stats"
    /\ LET r == generate_display_stats(stats)
       IN IF Raised(r) THEN Crash(r.exc)
          ELSE /\ layout' = [layout EXCEPT !.stats = r]
               /\ pc' = "gd_images"
               /\ UNCHANGED <<screen, live, exc, exitStatus>>
    /\ UNCHANGED <<variant, images, containers, stats, failed, hung, output, cycle,
                   sigints, arg, ret>>

\* monitorfree.py, generate_display(): images table
GdImages ==
    /\ pc = "gd_images"
    /\ LET r == generate_display_images(images)
       IN IF Raised(r) THEN Crash(r.exc)
          ELSE /\ layout' = [layout EXCEPT !.images = r]
               /\ pc' = "gd_containers"
               /\ UNCHANGED <<screen, live, exc, exitStatus>>
    /\ UNCHANGED <<variant, images, containers, stats, failed, hung, output, cycle,
                   sigints, arg, ret>>

\* monitorfree.py, generate_display(): containers table, footer, return;
\* then Live(layout) is entered or live.update(layout) runs, and
\* time.sleep(2) begins
GdContainers ==
    /\ pc = "gd_containers"
    /\ LET r == generate_display_containers(containers)
       IN IF Raised(r) THEN Crash(r.exc)
          ELSE /\ layout' = [layout EXCEPT !.containers = r, !.footer = TRUE]
               /\ screen' = layout'
               /\ live' = TRUE
               /\ pc' = "sleep"
               /\ UNCHANGED <<exc, exitStatus>>
    /\ UNCHANGED <<variant, images, containers, stats, failed, hung, output, cycle,
                   sigints, arg, ret>>

\* time.sleep returns and the next cycle begins: monitor.py clears the
\* screen, monitorfree.py calls generate_display() with a fresh Layout and
\* fresh locals while the screen keeps the last frame
Wake ==
    /\ pc = "sleep"
    /\ pc' = "q_images"
    /\ cycle' = NextCycle
    /\ failed' = {}
    /\ IF variant = "monitor"
       THEN /\ screen' = EmptyFrame
            /\ UNCHANGED <<images, containers, stats, layout>>
       ELSE /\ layout' = EmptyFrame
            /\ images' = <<>> /\ containers' = <<>> /\ stats' = <<>>
            /\ UNCHANGED screen
    /\ UNCHANGED <<variant, hung, live, output, exc, exitStatus, sigints, arg, ret>>

\* The steps the program takes by itself, a finishing subprocess included
Program ==
    \/ ProbeOk \/ ProbeFails
    \/ ImagesReturn \/ ContainersReturn \/ StatsReturn
    \/ DisplaySummary \/ DisplayImages \/ DisplayContainers \/ DisplayStats
    \/ GdSummary \/ GdStats \/ GdImages \/ GdContainers
    \/ Wake

Next ==
    \/ ProbeOk \/ ProbeFails
    \/ ImagesReturn \/ ContainersReturn \/ StatsReturn
    \/ Hang
    \/ InterruptProbe \/ InterruptQuery \/ InterruptLoop
    \/ DisplaySummary \/ DisplayImages \/ DisplayContainers \/ DisplayStats
    \/ GdSummary \/ GdStats \/ GdImages \/ GdContainers
    \/ Wake

Spec == Init /\ [][Next]_vars

\* A subprocess that is not hung finishes, and the interpreter keeps
\* running; nothing is assumed about the user or about a hung subprocess.
FairSpec == Spec /\ WF_vars(Program)

----------------------------------------------------------------------------
(* The bar functions alone *)

\* the widths the code asks for: 10 and 15 in the tables, 20 by default
BarWidths == {10, 15, 20}

\* a percentage with two decimals, as docker prints it
Hundredths(k) == Rat(k, 100)

InitBar ==
    /\ variant \in {"monitor", "monitorfree"}
    /\ pc = "bar_call"
    /\ arg \in [percentage : {Hundredths(k) : k \in 0..MaxPct}, width : BarWidths]
    /\ ret = NoValue
    /\ images = <<>> /\ containers = <<>> /\ stats = <<>>
    /\ failed = {} /\ hung = FALSE
    /\ layout = EmptyFrame /\ screen = EmptyFrame /\ live = FALSE
    /\ output = <<>> /\ exc = "" /\ exitStatus = NotExited
    /\ cycle = 0 /\ sigints = 0

CallCreateColoredBar ==
    /\ variant = "monitor"
    /\ pc = "bar_call"
    /\ ret' = create_colored_bar(arg.percentage, arg.width)
    /\ pc' = "bar_done"
    /\ UNCHANGED <<variant, images, containers, stats, failed, hung, layout, screen,
                   live, output, exc, exitStatus, cycle, sigints, arg>>

CallCreateBar ==
    /\ variant = "monitorfree"
    /\ pc = "bar_call"
    /\ ret' = create_bar(arg.percentage, arg.width)
    /\ pc' = "bar_done"
    /\ UNCHANGED <<variant, images, containers, stats, failed, hung, layout, screen,
                   live, output, exc, exitStatus, cycle, sigints, arg>>

NextBar == CallCreateColoredBar \/ CallCreateBar

SpecBar == InitBar /\ [][NextBar]_vars

----------------------------------------------------------------------------
(* One frame built from a poll that returned many containers *)

InitFrame ==
    /\ variant \in {"monitor", "monitorfree"}
    /\ pc = AfterStats
    /\ images \in {<<>>, <<ImgNginx, ImgAlpine>>}
    /\ containers \in SeqsUpTo({CtOf("running"), CtOf("exited")}, MaxContainers)
    /\ stats = <<StWeb>>
    /\ failed = {} /\ hung = FALSE
    /\ layout = EmptyFrame /\ screen = EmptyFrame /\ live = FALSE
    /\ output = <<>> /\ exc = "" /\ exitStatus = NotExited
    /\ cycle = 1 /\ sigints = 0
    /\ arg = NoValue /\ ret = NoValue

NextFrame ==
    \/ DisplaySummary \/ DisplayImages \/ DisplayContainers \/ DisplayStats
    \/ GdSummary \/ GdStats \/ GdImages \/ GdContainers

SpecFrame == InitFrame /\ [][NextFrame]_vars

----------------------------------------------------------------------------
(* Helpers of the properties *)

Printed(msg) == \E i \in 1..Len(output) : output[i] = msg

\* The frame of the current cycle: monitor.py prints it section by section,
\* monitorfree.py builds it in `layout` before it is shown
Frame == IF variant = "monitor" THEN screen ELSE layout

\* all three queries of the cycle have returned
PollDone == pc \in Rendering \cup {"sleep"} \/ (pc = "exited" /\ exc /= "")

IsPlaceholder(row) == "placeholder" \in DOMAIN row

HasPlaceholder(section) ==
    /\ section.drawn
    /\ \E i \in 1..Len(section.rows) : IsPlaceholder(section.rows[i])

\* the empty state of a drawn section: no data row
EmptySection(section) ==
    /\ section.drawn
    /\ \A i \in 1..Len(section.rows) : IsPlaceholder(section.rows[i])

FixedWidth(bar, width) == bar.filled + bar.empty = width /\ bar.filled <= width

StatsBarWidth == IF variant = "monitor" THEN 15 ELSE 10

----------------------------------------------------------------------------
(* Properties *)

\* C1: once a user interrupt has been delivered, at whatever point, the
\* program is stopped: it has printed the farewell and exited with status 0,
\* so no poll or render step follows the interrupt.
C1_InterruptStops ==
    sigints > 0 => (pc = "exited" /\ exitStatus = 0 /\ Printed(Farewell))

\* C2: when the startup probe fails the program prints the error message,
\* issues no query, draws no frame, and ends with a non-zero exit status.
C2_ProbeFailureExitsNonZero ==
    (pc = "exited" /\ cycle = 0 /\ sigints = 0) =>
        /\ Printed(ErrorMessage)
        /\ failed = {} /\ screen = EmptyFrame
        /\ exitStatus /= 0

\* C3: in a cycle where exactly one of the three queries failed, that query
\* gave the empty sequence, the cycle does not end the program, and in the
\* finished frame the failed query's section is empty while the other two
\* sections are what their own data alone determines.
C3_SingleFailureIsolated ==
    (PollDone /\ Cardinality(failed) = 1) =>
        /\ "images" \in failed => images = <<>>
        /\ "containers" \in failed => containers = <<>>
        /\ "stats" \in failed => stats = <<>>
        /\ exc = ""
        /\ pc = "sleep" =>
             /\ "images" \in failed => EmptySection(Frame.images)
             /\ "containers" \in failed => EmptySection(Frame.containers)
             /\ "stats" \in failed => EmptySection(Frame.stats)
             /\ "images" \notin failed =>
                  Frame.images = IF variant = "monitor" THEN display_images(images)
                                 ELSE generate_display_images(images)
             /\ "containers" \notin failed =>
                  Frame.containers = IF variant = "monitor" THEN display_containers(containers)
                                     ELSE generate_display_containers(containers)
             /\ "stats" \notin failed =>
                  Frame.stats = IF variant = "monitor" THEN display_stats(stats)
                                ELSE generate_display_stats(stats)

\* C4: converting a size or a percentage never raises, so malformed numeric
\* text never ends the program with a ValueError.
C4_NormalizationNeverRaises == exc /= "ValueError"

\* C5: a poll always ends: whenever a query is outstanding, the loop later
\* reaches the rendering step of that cycle.
C5_PollAlwaysEnds == (pc \in Querying) ~> (pc \in Rendering)

\* C6: in every drawn summary, running + stopped = containers, containers is
\* the number of container records fetched in the cycle (not the number of
\* rows shown) and running is the number of fetched records whose State is
\* exactly "running".
C6_SummaryCounts ==
    Frame.summary.drawn =>
        /\ Frame.summary.running + Frame.summary.stopped = Frame.summary.containers
        /\ Frame.summary.containers = Len(containers)
        /\ Frame.summary.running =
               Cardinality({i \in 1..Len(containers) : containers[i].State = "running"})

\* C6 witness: eleven containers fetched, ten rows shown by monitor.py, the
\* summary counts all eleven, some running and some not
C6_Witness ==
    /\ variant = "monitor"
    /\ Len(containers) = 11
    /\ screen.containers.drawn /\ Len(screen.containers.rows) = 10
    /\ screen.summary.containers = 11
    /\ screen.summary.running = 4 /\ screen.summary.stopped = 7

\* C7: for a percentage p in [0, 100] and a width w, the bar has
\* floor(p/100 * w) filled cells and w minus that many empty cells, and is
\* green for p < 50, yellow for 50 <= p < 75, red for p >= 75.
\* arg.percentage.n is p in hundredths.
C7_BarCellsAndBands ==
    (pc = "bar_done" /\ arg.percentage.n <= 100 * 100) =>
        /\ ret.filled = (arg.percentage.n * arg.width) \div (100 * 100)
        /\ ret.empty = arg.width - ret.filled
        /\ ret.color = IF arg.percentage.n < 50 * 100 THEN "green"
                       ELSE IF arg.percentage.n < 75 * 100 THEN "yellow"
                       ELSE "red"

\* C7 witness: create_bar(75.0, 15) is red with 11 filled and 4 empty cells
C7_Witness ==
    /\ pc = "bar_done"
    /\ variant = "monitorfree"
    /\ arg = [percentage |-> Hundredths(7500), width |-> 15]
    /\ ret = [color |-> "red", filled |-> 11, empty |-> 4]

\* C8: when the runtime reports no image and no container, the finished
\* frame has a summary of four zeros, a placeholder row in the image panel
\* and a placeholder row in the container panel, in both variants.
C8_EmptyRuntimeFrame ==
    (pc = "sleep" /\ failed = {} /\ images = <<>> /\ containers = <<>>) =>
        /\ screen.summary = [drawn |-> TRUE, images |-> 0, containers |-> 0,
                             running |-> 0, stopped |-> 0]
        /\ HasPlaceholder(screen.images)
        /\ HasPlaceholder(screen.containers)

\* C9: once the loop has been entered the program ends only through a user
\* interrupt (farewell printed, no exception), whatever the records of a
\* successful query contain.
C9_StoppedOnlyByInterrupt ==
    (pc = "exited" /\ cycle >= 1) => (exc = "" /\ sigints > 0 /\ Printed(Farewell))

\* C10: every bar on the screen has its fixed width: filled + empty cells
\* equal the requested width and the filled cells do not exceed it.
C10_BarsHaveFixedWidth ==
    /\ screen.images.drawn =>
         \A i \in 1..Len(screen.images.rows) :
             IsPlaceholder(screen.images.rows[i])
             \/ FixedWidth(screen.images.rows[i].bar, 15)
    /\ screen.stats.drawn =>
         \A i \in 1..Len(screen.stats.rows) :
             IsPlaceholder(screen.stats.rows[i])
             \/ /\ FixedWidth(screen.stats.rows[i].cpu_bar, StatsBarWidth)
                /\ FixedWidth(screen.stats.rows[i].mem_bar, StatsBarWidth)

====
